---------------------------- MODULE Spec2Model ----------------------------
(***************************************************************************)
(* Model of the two demo programs of lrncpp (src/app.cpp, src/learn.cpp)   *)
(* and of the routines they define.                                        *)
(*                                                                         *)
(* prog names what is run: "app" and "learn" are the two main functions,   *)
(* the other values are direct calls of one routine with arguments drawn   *)
(* from bounded sets ("filter" is vector_remove_erase_idiom with other     *)
(* literals than the ones written in the source).                          *)
(*                                                                         *)
(* Standard output is a text stream: cout.lines holds the completed lines  *)
(* (without their terminating newline), cout.cur the text written since    *)
(* the last newline.  No text inserted by the programs contains a newline  *)
(* except the explicit '\n' and std::endl, which are modelled by Endl.     *)
(*                                                                         *)
(* Iterators into a vector are positions 1..Len(v)+1; end(v) = Len(v)+1.   *)
(***************************************************************************)
EXTENDS Integers, Sequences, FiniteSets, TLC

VARIABLES prog, pc, cout, input, target, v, new_end, p, calls, locs,
          path, fault, exit_code,
          stdin, cin_pos, it1, instream, s1,
          members, layout,
          member_x, local_i, lambda, use_calls,
          tmp, ref

\* The state of set_remove_dups_demo: standard input as the sequence of its
\* whitespace-separated words, the position of the next word to extract,
\* the iterator it1 (<<>> is the end-of-stream iterator, <<w>> holds the
\* word w), the words left in instream, and the set s1.
dups_vars == <<stdin, cin_pos, it1, instream, s1>>

\* The state of the snippets of the notes: the struct whose layout is
\* computed; my_class (member x, local i of f, the closure, the calls of
\* use);
\* the temporary my_container and the reference bound to its member.
layout_vars == <<members, layout>>

lambda_vars == <<member_x, local_i, lambda, use_calls>>

temp_vars == <<tmp, ref>>

notes_vars == <<layout_vars, lambda_vars, temp_vars>>

filter_vars == <<input, target, v, new_end>>

log_vars == <<p, calls, locs, path>>

vars == <<prog, pc, cout, input, target, v, new_end, p, calls, locs,
          path, fault, exit_code, dups_vars, notes_vars>>

(***************************************************************************)
(* Bounds of the model.                                                    *)
(***************************************************************************)
MaxLen == 4

MaxAbs == 2

MaxCalls == 2

Values == (-MaxAbs)..MaxAbs

SeqsUpTo(n) == UNION {[1..k -> Values] : k \in 0..n}

(***************************************************************************)
(* Literals of the source.                                                 *)
(***************************************************************************)
DemoVector == <<1, 2, 3, 2, 5, 2, 6, 2, 4, 8>>

DemoTarget == 2

HelloMessage == "Logging Hello world!"

Bingo == [name |-> "bingo", age |-> 23]

AppCallLine == 19

LearnCallLine == 30

LogDeclLine == 8

\* The path of a translation unit as the compiler saw it: the build's choice.
PathPrefixes == {"", "/home/dev/lrncpp/"}

AppFile(prefix) == prefix \o "src/app.cpp"

LearnFile(prefix) == prefix \o "src/learn.cpp"

Messages == {HelloMessage, "", "x y"}

Names == {"bingo", "", "a b"}

Ages == {23, 0, -7, 105}

SiteLines == {1, 9, 19, 30, 100}

MaxWords == 2

MaxUseCalls == 3

\* The words of the string of learn.cpp line 35, as operator>> extracts them.
DupsInput ==
    <<"a", "a", "a", "b", "c", "foo", "bar", "foobar", "foo", "bar", "bar">>

Words == {"a", "foo", "zed"}

\* What standard input may hold when a program starts.
StdinContents ==
    UNION {[1..k -> Words] : k \in 0..MaxWords} \cup {DupsInput}

(***************************************************************************)
(* Text formatting: operator<< of an int writes its decimal digits, with a *)
(* leading '-' for a negative value.                                       *)
(***************************************************************************)
Digit(d) ==
    CASE d = 0 -> "0" [] d = 1 -> "1" [] d = 2 -> "2" [] d = 3 -> "3"
      [] d = 4 -> "4" [] d = 5 -> "5" [] d = 6 -> "6" [] d = 7 -> "7"
      [] d = 8 -> "8" [] d = 9 -> "9"

RECURSIVE NatToStr(_)
NatToStr(n) ==
    IF n < 10 THEN Digit(n) ELSE NatToStr(n \div 10) \o Digit(n % 10)

IntToStr(i) == IF i < 0 THEN "-" \o NatToStr(-i) ELSE NatToStr(i)

\* stream << text
Put(s, text) == [s EXCEPT !.cur = @ \o text]

\* stream << '\n' and stream << std::endl: the current line is completed.
Endl(s) == [lines |-> Append(s.lines, s.cur), cur |-> ""]

EmptyStream == [lines |-> <<>>, cur |-> ""]

\* operator<< of a vector<int> (learn/prettyprint.hpp): "[a, b, c]".
RECURSIVE JoinInts(_, _)
JoinInts(s, i) ==
    IF i > Len(s) THEN ""
    ELSE (IF i = 1 THEN "" ELSE ", ") \o IntToStr(s[i]) \o JoinInts(s, i + 1)

VecToStr(s) == "[" \o JoinInts(s, 1) \o "]"

(***************************************************************************)
(* log (app.cpp 7-13, learn.cpp 11-17).                                    *)
(***************************************************************************)
\* The default argument source_location::current() is evaluated where the
\* call is written, so the location is the one of the call expression.
DeclSiteLocation(site) == [file |-> site.file, line |-> LogDeclLine]

DefaultLocation(site) == [file |-> site.file, line |-> site.line]

LogNoSpace(s, message, location) ==
    Endl(Put(Put(Put(Put(Put(s, "info:"), location.file), ":"),
                 IntToStr(location.line)), message))

Log(s, message, location) ==
    Endl(Put(Put(Put(Put(Put(Put(s, "info:"), location.file), ":"),
                     IntToStr(location.line)), " "), message))

(***************************************************************************)
(* operator<<(ostream&, const person&) (learn.cpp 19-21).                  *)
(***************************************************************************)
PutPersonSpaced(s, q) ==
    Put(Put(Put(Put(Put(s, "(person ["), q.name), ", "), IntToStr(q.age)), "])")

PutPerson(s, q) ==
    Put(Put(Put(Put(Put(s, "(person ["), q.name), ","), IntToStr(q.age)), "])")

(***************************************************************************)
(* std::remove, std::remove_if and vector::erase as called by              *)
(* vector_remove_erase_idiom (learn.cpp 48-53).  A predicate is            *)
(* [kind |-> "eq", value |-> t] (std::remove's comparison with t) or       *)
(* [kind |-> "is_odd"] (the lambda of line 52).                            *)
(***************************************************************************)
\* a % b of C++ for b > 0: the remainder has the sign of a.
CppRem(a, b) == IF a >= 0 THEN a % b ELSE -((-a) % b)

is_odd_eq1(i) == CppRem(i, 2) = 1

is_odd(i) == CppRem(i, 2) # 0

Holds(pred, x) == IF pred.kind = "eq" THEN x = pred.value ELSE is_odd(x)

End(s) == Len(s) + 1

\* std::find_if on [i, end): the first position whose element satisfies pred.
RECURSIVE FindIfShort(_, _, _)
FindIfShort(s, i, pred) ==
    IF i >= Len(s) THEN Len(s)
    ELSE IF Holds(pred, s[i]) THEN i ELSE FindIfShort(s, i + 1, pred)

RECURSIVE FindIf(_, _, _)
FindIf(s, i, pred) ==
    IF i = End(s) THEN i
    ELSE IF Holds(pred, s[i]) THEN i ELSE FindIf(s, i + 1, pred)

\* The loop of std::remove_if: result is the position the next kept element
\* is moved to, first the position examined.
\* A wrong version of the loop: after a match the next element is skipped.
RECURSIVE RemoveLoopSkipNext(_, _, _, _)
RemoveLoopSkipNext(s, result, first, pred) ==
    IF first >= End(s) THEN [v |-> s, it |-> result]
    ELSE IF ~Holds(pred, s[first])
         THEN RemoveLoopSkipNext([s EXCEPT ![result] = s[first]], result + 1,
                                 first + 1, pred)
         ELSE RemoveLoopSkipNext(s, result, first + 2, pred)

RECURSIVE RemoveLoop(_, _, _, _)
RemoveLoop(s, result, first, pred) ==
    IF first = End(s) THEN [v |-> s, it |-> result]
    ELSE IF ~Holds(pred, s[first])
         THEN RemoveLoop([s EXCEPT ![result] = s[first]], result + 1,
                         first + 1, pred)
         ELSE RemoveLoop(s, result, first + 1, pred)

\* Plausible wrong versions of std::remove_if.
\* Only the first match is removed.
RemoveIfFirstOnly(s, pred) ==
    LET first == FindIf(s, 1, pred) IN
    IF first = End(s) THEN [v |-> s, it |-> first]
    ELSE [v |-> SubSeq(s, 1, first - 1) \o SubSeq(s, first + 1, Len(s))
                 \o <<s[first]>>,
          it |-> Len(s)]

\* A match is overwritten by the last element of the range (no order kept).
RECURSIVE SwapLoop(_, _, _, _)
SwapLoop(s, i, last, pred) ==
    IF i >= last THEN [v |-> s, it |-> last]
    ELSE IF Holds(pred, s[last - 1]) THEN SwapLoop(s, i, last - 1, pred)
    ELSE IF Holds(pred, s[i])
         THEN SwapLoop([s EXCEPT ![i] = s[last - 1], ![last - 1] = s[i]],
                       i + 1, last - 1, pred)
         ELSE SwapLoop(s, i + 1, last, pred)

RemoveIfUnstable(s, pred) == SwapLoop(s, 1, End(s), pred)

\* "Not found" is reported as the position before the range.
RemoveIfNotFoundZero(s, pred) ==
    LET first == FindIf(s, 1, pred) IN
    IF first = End(s) THEN [v |-> s, it |-> 0]
    ELSE RemoveLoop(s, first, first + 1, pred)

\* The matches are taken out of the container itself.
RemoveIfShrinks(s, pred) ==
    LET kept == SelectSeq(s, LAMBDA e : ~Holds(pred, e)) IN
    [v |-> kept, it |-> End(kept)]

StdRemoveIf(s, pred) ==
    LET first == FindIf(s, 1, pred) IN
    IF first = End(s) THEN [v |-> s, it |-> first]
    ELSE RemoveLoop(s, first, first + 1, pred)

StdRemove(s, value) == StdRemoveIf(s, [kind |-> "eq", value |-> value])

\* v.erase(first, last) needs 1 <= first <= last <= end(v).
ValidRange(s, first, last) == 1 <= first /\ first <= last /\ last <= End(s)

\* A wrong version: v.erase(first), which erases one element.
VecEraseOne(s, first, last) ==
    SubSeq(s, 1, first - 1) \o SubSeq(s, first + 1, Len(s))

VecErase(s, first, last) ==
    SubSeq(s, 1, first - 1) \o SubSeq(s, last, Len(s))

\* s.erase(remove_if(begin(s), end(s), pred), end(s)), the whole idiom.
EraseRemoveIf(s, pred) ==
    LET r == StdRemoveIf(s, pred) IN VecErase(r.v, r.it, End(r.v))


(***************************************************************************)
(* Struct layout as the notes describe it (Layout / Alignment): a member   *)
(* is placed at the next offset that is a multiple of its size, and the    *)
(* size of the struct is rounded up to a multiple of its alignment, the    *)
(* size of its largest member.  A struct is the sequence of the types of   *)
(* its members.                                                            *)
(***************************************************************************)
TypeSize(type) ==
    CASE type \in {"char", "bool"} -> 1
      [] type \in {"int", "float"} -> 4
      [] type = "double" -> 8

Foo1 == <<"char">>

Foo2 == <<"char", "char">>

Foo3 == <<"char", "int">>

Foo4 == <<"int", "char", "float", "double", "bool">>

Foo5 == <<"double", "int", "float", "char", "bool">>

\* Every order of the members of foo4.
Reorderings(s) ==
    {[k \in 1..Len(s) |-> s[f[k]]] :
        f \in {g \in [1..Len(s) -> 1..Len(s)] :
                  \A a, b \in 1..Len(s) : a # b => g[a] # g[b]}}

Structs == {Foo1, Foo2, Foo3} \cup Reorderings(Foo4)

\* A wrong version of AlignUp: members are packed, no padding.
AlignUpPacked(offset, size) == offset

\* The smallest multiple of size that is >= offset.
AlignUp(offset, size) == ((offset + size - 1) \div size) * size

\* Members k.. are placed from offset on; pads collects the padding put
\* before each member.
RECURSIVE PlaceMembers(_, _, _, _)
PlaceMembers(s, k, offset, pads) ==
    IF k > Len(s) THEN [end |-> offset, pads |-> pads]
    ELSE LET at == AlignUp(offset, TypeSize(s[k])) IN
         PlaceMembers(s, k + 1, at + TypeSize(s[k]),
                      Append(pads, at - offset))

RECURSIVE MaxSize(_, _)
MaxSize(s, k) ==
    IF k > Len(s) THEN 1
    ELSE LET rest == MaxSize(s, k + 1) IN
         IF TypeSize(s[k]) > rest THEN TypeSize(s[k]) ELSE rest

\* size, alignment and paddings (before each member, then at the end).
LayoutOf(s) ==
    LET placed == PlaceMembers(s, 1, 0, <<>>)
        align == MaxSize(s, 1)
        size == AlignUp(placed.end, align)
    IN  [size |-> size, align |-> align,
         pads |-> Append(placed.pads, size - placed.end)]

(***************************************************************************)
(* Initial states.                                                         *)
(***************************************************************************)
InitCommon ==
    /\ cout = EmptyStream
    /\ v = <<>>
    /\ new_end = 0
    /\ calls = <<>>
    /\ locs = <<>>
    /\ fault = FALSE
    /\ exit_code = <<>>
    /\ cin_pos = 1 /\ it1 = <<>> /\ instream = <<>> /\ s1 = {}
    /\ layout = <<>>
    /\ member_x = 0 /\ local_i = <<>> /\ lambda = <<>> /\ use_calls = <<>>
    /\ tmp = <<>> /\ ref = "unbound"

\* Routines that neither read standard input nor lay out a struct.
InitIdle == stdin = <<>> /\ members = <<>>

InitApp ==
    /\ prog = "app" /\ pc = "app_16"
    /\ path \in PathPrefixes
    /\ input = <<>> /\ target = 0 /\ p = <<>>
    /\ InitIdle

InitLearn ==
    /\ prog = "learn" /\ pc = "learn_61"
    /\ path = ""
    /\ input = DemoVector /\ target = DemoTarget /\ p = <<>>
    /\ stdin \in StdinContents /\ members = <<>>

InitFilter ==
    /\ prog = "filter" /\ pc = "v_46"
    /\ path = ""
    /\ input \in SeqsUpTo(MaxLen) /\ target \in Values /\ p = <<>>
    /\ InitIdle

InitLog ==
    /\ prog = "log" /\ pc = "log_call"
    /\ path \in PathPrefixes
    /\ input = <<>> /\ target = 0 /\ p = <<>>
    /\ InitIdle

InitSourceLocation ==
    /\ prog = "source_location" /\ pc = "sl_30"
    /\ path \in PathPrefixes
    /\ input = <<>> /\ target = 0 /\ p = <<>>
    /\ InitIdle

InitPutPerson ==
    /\ prog = "operator<<" /\ pc = "fmt_20"
    /\ path = ""
    /\ input = <<>> /\ target = 0
    /\ p \in {<<[name |-> n, age |-> a]>> : n \in Names, a \in Ages}
    /\ InitIdle

InitDesignated ==
    /\ prog = "designated_initializers" /\ pc = "di_24"
    /\ path = ""
    /\ input = <<>> /\ target = 0 /\ p = <<>>
    /\ InitIdle

InitDups ==
    /\ prog = "set_remove_dups_demo" /\ pc = "dups_35"
    /\ path = ""
    /\ input = <<>> /\ target = 0 /\ p = <<>>
    /\ stdin \in StdinContents /\ members = <<>>

InitSizeof ==
    /\ prog = "sizeof" /\ pc = "sizeof"
    /\ path = ""
    /\ input = <<>> /\ target = 0 /\ p = <<>>
    /\ stdin = <<>> /\ members \in Structs

InitStructs1 ==
    /\ prog = "demo_structs1" /\ pc = "structs_1043"
    /\ path = ""
    /\ input = <<>> /\ target = 0 /\ p = <<>>
    /\ InitIdle

\* my_class as constructed (int x = 0), f about to run.
InitMyClassF ==
    /\ prog = "my_class::f" /\ pc = "f_700"
    /\ path = ""
    /\ input = <<>> /\ target = 0 /\ p = <<>>
    /\ InitIdle

InitMyContainer ==
    /\ prog = "my_container" /\ pc = "t_791_ctor"
    /\ path = ""
    /\ input = <<>> /\ target = 0 /\ p = <<>>
    /\ InitIdle

\* The two programs and the direct calls whose arguments are few.
InitPrograms ==
    \/ InitApp
    \/ InitLearn
    \/ InitLog
    \/ InitSourceLocation
    \/ InitPutPerson
    \/ InitDesignated
    \/ InitDups
    \/ InitSizeof
    \/ InitStructs1
    \/ InitMyClassF
    \/ InitMyContainer

Init ==
    /\ InitCommon
    /\ \/ InitPrograms
       \/ InitFilter

(***************************************************************************)
(* A call log(message) written at site (a file and a line): the location   *)
(* parameter is bound to the default argument, then the body runs.         *)
(***************************************************************************)
CallLog(site, message) ==
    LET location == DefaultLocation(site) IN
    /\ calls' = Append(calls, [site |-> site, message |-> message])
    /\ locs' = Append(locs, location)
    /\ cout' = Log(cout, message, location)

(***************************************************************************)
(* main of app.cpp (15-21).                                                *)
(***************************************************************************)
App16 ==
    /\ prog = "app" /\ pc = "app_16"
    /\ cout' = Endl(Put(cout, "Hello, World!"))
    /\ pc' = "app_17"
    /\ UNCHANGED <<dups_vars, notes_vars, prog, input, target, v, new_end, p, calls, locs, path,
                   fault, exit_code>>

App17 ==
    /\ prog = "app" /\ pc = "app_17"
    /\ p' = <<Bingo>>
    /\ pc' = "app_18"
    /\ UNCHANGED <<dups_vars, notes_vars, prog, cout, input, target, v, new_end, calls, locs, path,
                   fault, exit_code>>

App18SkipName ==
    /\ prog = "app" /\ pc = "app_18"
    /\ cout' = Endl(Put(cout, "P.name = "))
    /\ pc' = "app_19"
    /\ UNCHANGED <<dups_vars, notes_vars, prog, input, target, v, new_end, p, calls, locs, path,
                   fault, exit_code>>

App18 ==
    /\ prog = "app" /\ pc = "app_18"
    /\ cout' = Endl(Put(Put(cout, "P.name = "), p[1].name))
    /\ pc' = "app_19"
    /\ UNCHANGED <<dups_vars, notes_vars, prog, input, target, v, new_end, p, calls, locs, path,
                   fault, exit_code>>

App19 ==
    /\ prog = "app" /\ pc = "app_19"
    /\ CallLog([file |-> AppFile(path), line |-> AppCallLine], HelloMessage)
    /\ pc' = "app_20"
    /\ UNCHANGED <<dups_vars, notes_vars, prog, input, target, v, new_end, p, path, fault,
                   exit_code>>

App20 ==
    /\ prog = "app" /\ pc = "app_20"
    /\ exit_code' = <<0>>
    /\ pc' = "done"
    /\ UNCHANGED <<dups_vars, notes_vars, prog, cout, input, target, v, new_end, p, calls, locs,
                   path, fault>>

(***************************************************************************)
(* Direct calls of log, source_location, operator<< and                    *)
(* designated_initializers (learn.cpp 11-31).                              *)
(***************************************************************************)
LogCall ==
    /\ prog = "log" /\ pc = "log_call"
    /\ Len(calls) < MaxCalls
    /\ \E file \in {AppFile(path), LearnFile(path)}, line \in SiteLines,
          message \in Messages :
          CallLog([file |-> file, line |-> line], message)
    /\ UNCHANGED <<dups_vars, notes_vars, prog, pc, input, target, v, new_end, p, path, fault,
                   exit_code>>

SourceLocation30 ==
    /\ prog = "source_location" /\ pc = "sl_30"
    /\ CallLog([file |-> LearnFile(path), line |-> LearnCallLine],
               HelloMessage)
    /\ pc' = "done"
    /\ UNCHANGED <<dups_vars, notes_vars, prog, input, target, v, new_end, p, path, fault,
                   exit_code>>

PutPerson20 ==
    /\ prog = "operator<<" /\ pc = "fmt_20"
    /\ cout' = PutPerson(cout, p[1])
    /\ pc' = "done"
    /\ UNCHANGED <<dups_vars, notes_vars, prog, input, target, v, new_end, p, calls, locs, path,
                   fault, exit_code>>

Designated24 ==
    /\ prog = "designated_initializers" /\ pc = "di_24"
    /\ cout' = Endl(Put(cout, "-- designated initializer for Person"))
    /\ pc' = "di_25"
    /\ UNCHANGED <<dups_vars, notes_vars, prog, input, target, v, new_end, p, calls, locs, path,
                   fault, exit_code>>

Designated25 ==
    /\ prog = "designated_initializers" /\ pc = "di_25"
    /\ p' = <<Bingo>>
    /\ pc' = "di_26"
    /\ UNCHANGED <<dups_vars, notes_vars, prog, cout, input, target, v, new_end, calls, locs, path,
                   fault, exit_code>>

Designated26 ==
    /\ prog = "designated_initializers" /\ pc = "di_26"
    /\ cout' = Endl(PutPerson(cout, p[1]))
    /\ pc' = "done"
    /\ UNCHANGED <<dups_vars, notes_vars, prog, input, target, v, new_end, p, calls, locs, path,
                   fault, exit_code>>

(***************************************************************************)
(* vector_remove_erase_idiom (learn.cpp 44-56), one action per statement.  *)
(***************************************************************************)
InFilter == prog \in {"learn", "filter"}

PrintVector(label) == cout' = Endl(Put(Put(cout, label), VecToStr(v)))

V46 ==
    /\ InFilter /\ pc = "v_46"
    /\ v' = input
    /\ pc' = "v_47"
    /\ UNCHANGED <<dups_vars, notes_vars, prog, cout, input, target, new_end, p, calls, locs, path,
                   fault, exit_code>>

V47 ==
    /\ InFilter /\ pc = "v_47"
    /\ PrintVector("Original      : ")
    /\ pc' = "v_48"
    /\ UNCHANGED <<dups_vars, notes_vars, prog, input, target, v, new_end, p, calls, locs, path,
                   fault, exit_code>>

V48 ==
    /\ InFilter /\ pc = "v_48"
    /\ LET r == StdRemove(v, target) IN
         /\ v' = r.v
         /\ new_end' = r.it
    /\ pc' = "v_49"
    /\ UNCHANGED <<dups_vars, notes_vars, prog, cout, input, target, p, calls, locs, path, fault,
                   exit_code>>

V49 ==
    /\ InFilter /\ pc = "v_49"
    /\ PrintVector("After Remove  : ")
    /\ pc' = "v_50"
    /\ UNCHANGED <<dups_vars, notes_vars, prog, input, target, v, new_end, p, calls, locs, path,
                   fault, exit_code>>

\* erase with an invalid range is undefined behaviour: the run is marked
\* faulty and goes no further.
V50 ==
    /\ InFilter /\ pc = "v_50"
    /\ IF ValidRange(v, new_end, End(v))
       THEN /\ v' = VecErase(v, new_end, End(v))
            /\ pc' = "v_51"
            /\ UNCHANGED fault
       ELSE /\ fault' = TRUE
            /\ pc' = "ub"
            /\ UNCHANGED v
    /\ UNCHANGED <<dups_vars, notes_vars, prog, cout, input, target, new_end, p, calls, locs, path,
                   exit_code>>

V51 ==
    /\ InFilter /\ pc = "v_51"
    /\ PrintVector("After Erase   : ")
    /\ pc' = "v_53"
    /\ UNCHANGED <<dups_vars, notes_vars, prog, input, target, v, new_end, p, calls, locs, path,
                   fault, exit_code>>

\* A wrong version of line 53: the odd values are removed from the original
\* sequence instead of from the vector as the first pass left it.
V53OnInput ==
    /\ InFilter /\ pc = "v_53"
    /\ LET r == StdRemoveIf(input, [kind |-> "is_odd"]) IN
         /\ v' = VecErase(r.v, r.it, End(r.v))
         /\ pc' = "v_54"
         /\ UNCHANGED fault
    /\ UNCHANGED <<dups_vars, notes_vars, prog, cout, input, target, new_end, p, calls, locs, path,
                   exit_code>>

V53 ==
    /\ InFilter /\ pc = "v_53"
    /\ LET r == StdRemoveIf(v, [kind |-> "is_odd"]) IN
         IF ValidRange(r.v, r.it, End(r.v))
         THEN /\ v' = VecErase(r.v, r.it, End(r.v))
              /\ pc' = "v_54"
              /\ UNCHANGED fault
         ELSE /\ fault' = TRUE
              /\ pc' = "ub"
              /\ v' = r.v
    /\ UNCHANGED <<dups_vars, notes_vars, prog, cout, input, target, new_end, p, calls, locs, path,
                   exit_code>>

V54 ==
    /\ InFilter /\ pc = "v_54"
    /\ PrintVector("After Odd Del : ")
    /\ pc' = "v_56"
    /\ UNCHANGED <<dups_vars, notes_vars, prog, input, target, v, new_end, p, calls, locs, path,
                   fault, exit_code>>

V56 ==
    /\ InFilter /\ pc = "v_56"
    /\ pc' = IF prog = "learn" THEN "learn_62" ELSE "done"
    /\ UNCHANGED <<dups_vars, notes_vars, prog, cout, input, target, v, new_end, p, calls, locs,
                   path, fault, exit_code>>

(***************************************************************************)
(* main of learn.cpp (58-63).                                              *)
(***************************************************************************)
\* A wrong version of main: source_location() is called first.
Learn61ViaSourceLocation ==
    /\ prog = "learn" /\ pc = "learn_61"
    /\ CallLog([file |-> LearnFile(path), line |-> LearnCallLine],
               HelloMessage)
    /\ pc' = "v_46"
    /\ UNCHANGED <<dups_vars, notes_vars, prog, input, target, v, new_end,
                   p, path, fault, exit_code>>

Learn61 ==
    /\ prog = "learn" /\ pc = "learn_61"
    /\ pc' = "v_46"
    /\ UNCHANGED <<dups_vars, notes_vars, prog, cout, input, target, v, new_end, p, calls, locs,
                   path, fault, exit_code>>

\* A wrong version of line 62: main returns a failure code.
Learn62ExitOne ==
    /\ prog = "learn" /\ pc = "learn_62"
    /\ exit_code' = <<1>>
    /\ pc' = "done"
    /\ UNCHANGED <<dups_vars, notes_vars, prog, cout, input, target, v, new_end, p, calls, locs,
                   path, fault>>

Learn62 ==
    /\ prog = "learn" /\ pc = "learn_62"
    /\ exit_code' = <<0>>
    /\ pc' = "done"
    /\ UNCHANGED <<dups_vars, notes_vars, prog, cout, input, target, v, new_end, p, calls, locs,
                   path, fault>>

(***************************************************************************)
(* set_remove_dups_demo (learn.cpp 33-41).                                 *)
(***************************************************************************)
\* operator>> on std::cin: the next word, or nothing at end of input.
CinExtract ==
    IF cin_pos <= Len(stdin)
    THEN it1' = <<stdin[cin_pos]>> /\ cin_pos' = cin_pos + 1
    ELSE it1' = <<>> /\ UNCHANGED cin_pos

\* Lines 35-37: the string, the empty set and the string stream over it.
Dups35 ==
    /\ prog = "set_remove_dups_demo" /\ pc = "dups_35"
    /\ instream' = DupsInput
    /\ s1' = {}
    /\ pc' = "dups_38"
    /\ UNCHANGED <<prog, cout, filter_vars, log_vars, fault, exit_code,
                   stdin, cin_pos, it1, notes_vars>>

\* Line 38: an istream_iterator over cin extracts its first value when it is
\* constructed.  Line 39 constructs the end-of-stream iterator.
Dups38 ==
    /\ prog = "set_remove_dups_demo" /\ pc = "dups_38"
    /\ CinExtract
    /\ pc' = "dups_40"
    /\ UNCHANGED <<prog, cout, filter_vars, log_vars, fault, exit_code,
                   stdin, instream, s1, notes_vars>>

\* Line 40, one round of std::copy: *it1 is inserted into s1, then ++it1
\* extracts the next word.
Dups40Copy ==
    /\ prog = "set_remove_dups_demo" /\ pc = "dups_40"
    /\ it1 # <<>>
    /\ s1' = s1 \cup {it1[1]}
    /\ CinExtract
    /\ UNCHANGED <<prog, pc, cout, filter_vars, log_vars, fault, exit_code,
                   stdin, instream, notes_vars>>

\* Line 40, it1 == end: std::copy returns, and so does the routine.
Dups40End ==
    /\ prog = "set_remove_dups_demo" /\ pc = "dups_40"
    /\ it1 = <<>>
    /\ pc' = "done"
    /\ UNCHANGED <<prog, cout, filter_vars, log_vars, fault, exit_code,
                   dups_vars, notes_vars>>

(***************************************************************************)
(* sizeof of a struct, and demo_structs1 of the notes.                     *)
(***************************************************************************)
Sizeof ==
    /\ prog = "sizeof" /\ pc = "sizeof"
    /\ layout' = <<LayoutOf(members)>>
    /\ pc' = "done"
    /\ UNCHANGED <<prog, cout, filter_vars, log_vars, fault, exit_code,
                   dups_vars, members, lambda_vars, temp_vars>>

Structs1043 ==
    /\ prog = "demo_structs1" /\ pc = "structs_1043"
    /\ layout' = Append(layout, LayoutOf(Foo4))
    /\ cout' = Endl(Put(Put(cout, "size(foo4)="),
                        IntToStr(LayoutOf(Foo4).size)))
    /\ pc' = "structs_1044"
    /\ UNCHANGED <<prog, filter_vars, log_vars, fault, exit_code,
                   dups_vars, members, lambda_vars, temp_vars>>

Structs1044 ==
    /\ prog = "demo_structs1" /\ pc = "structs_1044"
    /\ layout' = Append(layout, LayoutOf(Foo5))
    /\ cout' = Endl(Put(Put(cout, "size(foo5)="),
                        IntToStr(LayoutOf(Foo5).size)))
    /\ pc' = "done"
    /\ UNCHANGED <<prog, filter_vars, log_vars, fault, exit_code,
                   dups_vars, members, lambda_vars, temp_vars>>

(***************************************************************************)
(* my_class::f of the notes (part_000 696-713).  The closure of            *)
(* [=] { use(i, x); } holds a copy of i and the this pointer; x is read    *)
(* through this when the closure is called.                                *)
(***************************************************************************)
Capture(cur_i) == [i |-> cur_i, this |-> "this"]

\* A wrong version: i is captured by reference, as [&] would.
LambdaArgsByRef(closure, cur_i, cur_x) == <<cur_i, cur_x>>

\* The arguments the closure passes to use, given the present values of the
\* local i and of this->x.
LambdaArgs(closure, cur_i, cur_x) == <<closure.i, cur_x>>

CallLambda ==
    use_calls' = Append(use_calls, LambdaArgs(lambda[1], local_i[1], member_x))

\* Values the statements elided after line 708 may assign.
ElidedX == {0, 7, 42, 43}

ElidedI == {0, 5}

F700 ==
    /\ prog = "my_class::f" /\ pc = "f_700"
    /\ local_i' = <<0>>
    /\ pc' = "f_702"
    /\ UNCHANGED <<prog, cout, filter_vars, log_vars, fault, exit_code,
                   dups_vars, layout_vars, member_x, lambda, use_calls,
                   temp_vars>>

F702 ==
    /\ prog = "my_class::f" /\ pc = "f_702"
    /\ lambda' = <<Capture(local_i[1])>>
    /\ pc' = "f_705"
    /\ UNCHANGED <<prog, cout, filter_vars, log_vars, fault, exit_code,
                   dups_vars, layout_vars, member_x, local_i, use_calls,
                   temp_vars>>

F705 ==
    /\ prog = "my_class::f" /\ pc = "f_705"
    /\ member_x' = 42
    /\ pc' = "f_706"
    /\ UNCHANGED <<prog, cout, filter_vars, log_vars, fault, exit_code,
                   dups_vars, layout_vars, local_i, lambda, use_calls,
                   temp_vars>>

F706 ==
    /\ prog = "my_class::f" /\ pc = "f_706"
    /\ CallLambda
    /\ pc' = "f_707"
    /\ UNCHANGED <<prog, cout, filter_vars, log_vars, fault, exit_code,
                   dups_vars, layout_vars, member_x, local_i, lambda,
                   temp_vars>>

F707 ==
    /\ prog = "my_class::f" /\ pc = "f_707"
    /\ member_x' = 43
    /\ pc' = "f_708"
    /\ UNCHANGED <<prog, cout, filter_vars, log_vars, fault, exit_code,
                   dups_vars, layout_vars, local_i, lambda, use_calls,
                   temp_vars>>

F708 ==
    /\ prog = "my_class::f" /\ pc = "f_708"
    /\ CallLambda
    /\ pc' = "f_709"
    /\ UNCHANGED <<prog, cout, filter_vars, log_vars, fault, exit_code,
                   dups_vars, layout_vars, member_x, local_i, lambda,
                   temp_vars>>

\* Line 709, "// ...": further statements of f, any of x = c, i = c and
\* lambda().
F709AssignX ==
    /\ prog = "my_class::f" /\ pc = "f_709"
    /\ \E c \in ElidedX : member_x' = c
    /\ UNCHANGED <<prog, pc, cout, filter_vars, log_vars, fault, exit_code,
                   dups_vars, layout_vars, local_i, lambda, use_calls,
                   temp_vars>>

F709AssignI ==
    /\ prog = "my_class::f" /\ pc = "f_709"
    /\ \E c \in ElidedI : local_i' = <<c>>
    /\ UNCHANGED <<prog, pc, cout, filter_vars, log_vars, fault, exit_code,
                   dups_vars, layout_vars, member_x, lambda, use_calls,
                   temp_vars>>

F709Call ==
    /\ prog = "my_class::f" /\ pc = "f_709"
    /\ Len(use_calls) < MaxUseCalls
    /\ CallLambda
    /\ UNCHANGED <<prog, pc, cout, filter_vars, log_vars, fault, exit_code,
                   dups_vars, layout_vars, member_x, local_i, lambda,
                   temp_vars>>

F712 ==
    /\ prog = "my_class::f" /\ pc = "f_709"
    /\ pc' = "done"
    /\ UNCHANGED <<prog, cout, filter_vars, log_vars, fault, exit_code,
                   dups_vars, notes_vars>>

(***************************************************************************)
(* main of the my_container snippet of the notes (part_000 772-794).       *)
(* tmp is the temporary my_container() (<<>> before it is constructed):    *)
(* its member s and whether the object is alive.                           *)
(***************************************************************************)
\* Line 791, my_container(): the constructor (775-778).
T791Construct ==
    /\ prog = "my_container" /\ pc = "t_791_ctor"
    /\ tmp' = <<[s |-> "Init", alive |-> TRUE]>>
    /\ cout' = Endl(Put(cout, "Constructed"))
    /\ pc' = "t_791_get"
    /\ UNCHANGED <<prog, filter_vars, log_vars, fault, exit_code,
                   dups_vars, layout_vars, lambda_vars, ref>>

\* Line 791, .get_s(): the reference s is bound to the member of the
\* temporary (785-787).
T791GetS ==
    /\ prog = "my_container" /\ pc = "t_791_get"
    /\ ref' = "tmp.s"
    /\ pc' = "t_791_end"
    /\ UNCHANGED <<prog, cout, filter_vars, log_vars, fault, exit_code,
                   dups_vars, layout_vars, lambda_vars, tmp>>

\* Line 791, end of the full-expression: the reference is bound to the
\* result of a call, not to the temporary, so the temporary is destroyed
\* here (780-783), and its member after the destructor's body.
T791Destroy ==
    /\ prog = "my_container" /\ pc = "t_791_end"
    /\ tmp' = <<[s |-> "UNSAFE", alive |-> FALSE]>>
    /\ cout' = Endl(Put(cout, "Destructed"))
    /\ pc' = "t_792"
    /\ UNCHANGED <<prog, filter_vars, log_vars, fault, exit_code,
                   dups_vars, layout_vars, lambda_vars, ref>>

\* What reading a destroyed std::string may give: the bytes its destructor
\* left, nothing, or other bytes.
DanglingReads == {"UNSAFE", "", "?"}

\* Line 792: s is printed.  Reading through a reference to a destroyed
\* object is undefined behaviour: some text is printed, or the run crashes.
T792 ==
    /\ prog = "my_container" /\ pc = "t_792"
    /\ IF tmp[1].alive
       THEN /\ cout' = Endl(Put(cout, tmp[1].s))
            /\ pc' = "t_793"
            /\ UNCHANGED fault
       ELSE \/ /\ \E text \in DanglingReads :
                     cout' = Endl(Put(cout, text))
               /\ pc' = "t_793"
               /\ UNCHANGED fault
            \/ /\ fault' = TRUE
               /\ pc' = "ub"
               /\ UNCHANGED cout
    /\ UNCHANGED <<prog, filter_vars, log_vars, exit_code,
                   dups_vars, notes_vars>>

T793 ==
    /\ prog = "my_container" /\ pc = "t_793"
    /\ exit_code' = <<0>>
    /\ pc' = "done"
    /\ UNCHANGED <<prog, cout, filter_vars, log_vars, fault,
                   dups_vars, notes_vars>>

Next ==
    \/ App16 \/ App17 \/ App18 \/ App19 \/ App20
    \/ LogCall \/ SourceLocation30 \/ PutPerson20
    \/ Designated24 \/ Designated25 \/ Designated26
    \/ V46 \/ V47 \/ V48 \/ V49 \/ V50 \/ V51 \/ V53 \/ V54 \/ V56
    \/ Learn61 \/ Learn62
    \/ Dups35 \/ Dups38 \/ Dups40Copy \/ Dups40End
    \/ Sizeof \/ Structs1043 \/ Structs1044
    \/ F700 \/ F702 \/ F705 \/ F706 \/ F707 \/ F708
    \/ F709AssignX \/ F709AssignI \/ F709Call \/ F712
    \/ T791Construct \/ T791GetS \/ T791Destroy \/ T792 \/ T793

Spec == Init /\ [][Next]_vars

\* The programs as they are started, without the routine called on drawn inputs.
InitMains == InitCommon /\ InitPrograms

\* A single-threaded program that can take its next step takes it.
FairSpec == InitMains /\ [][Next]_vars /\ WF_vars(Next)


(***************************************************************************)
(* Reference notions the properties are stated with.                       *)
(***************************************************************************)
\* The elements of s different from t, in order.
KeepNot(s, t) == SelectSeq(s, LAMBDA x : x # t)

\* The elements of s divisible by 2, in order.
Evens(s) == SelectSeq(s, LAMBDA x : x % 2 = 0)

\* a can be obtained from b by deleting elements.
RECURSIVE IsSubseq(_, _)
IsSubseq(a, b) ==
    IF a = <<>> THEN TRUE
    ELSE IF b = <<>> THEN FALSE
    ELSE IF Head(a) = Head(b) THEN IsSubseq(Tail(a), Tail(b))
    ELSE IsSubseq(a, Tail(b))

Occurs(s, x) == \E i \in 1..Len(s) : s[i] = x

\* The first pass (lines 48 and 50) is complete and the second has not run.
AfterErase == InFilter /\ pc \in {"v_51", "v_53"}

\* The second pass (line 53) is complete.
AfterOddDel == InFilter /\ pc \in {"v_54", "v_56", "learn_62", "done"}

(***************************************************************************)
(* C1: remove-by-value (std::remove, then erase) leaves exactly the        *)
(* elements of the original sequence that differ from the target, with     *)
(* their multiplicities and in their original order; [1,2,3,2,5,2,6,2,4,8] *)
(* with target 2 becomes [1,3,5,6,4,8].                                    *)
(***************************************************************************)
C1_RemoveByValue ==
    AfterErase =>
        /\ v = KeepNot(input, target)
        /\ (input = <<1, 2, 3, 2, 5, 2, 6, 2, 4, 8>> /\ target = 2)
              => v = <<1, 3, 5, 6, 4, 8>>

C1_Witness ==
    /\ prog = "filter" /\ pc = "v_51"
    /\ input = <<2, 1, 2, 1>> /\ target = 2 /\ v = <<1, 1>>

(***************************************************************************)
(* C2: remove-by-predicate (erase of remove_if with is_odd) turns the      *)
(* vector into the sequence of its even elements, with multiplicities and  *)
(* in order, and leaves no odd element; [1,3,5,6,4,8] becomes [6,4,8].     *)
(***************************************************************************)
C2_RemoveByPredicate ==
    [][(InFilter /\ pc = "v_53") =>
          /\ v' = Evens(v)
          /\ \A i \in 1..Len(v') : v'[i] % 2 = 0
          /\ (v = <<1, 3, 5, 6, 4, 8>>) => (v' = <<6, 4, 8>>)]_vars

C2_Witness ==
    /\ prog = "filter" /\ pc = "v_54"
    /\ input = <<-1, 2, 1, -2>> /\ target = 0 /\ v = <<2, -2>>

(***************************************************************************)
(* C3: the output of each compact-then-truncate filter is a subsequence of *)
(* its input: the surviving elements keep their relative order.            *)
(***************************************************************************)
C3_OrderPreserved ==
    [][/\ (InFilter /\ pc = "v_50") => IsSubseq(v', input)
       /\ (InFilter /\ pc = "v_53") => IsSubseq(v', v)]_vars

C3_Witness ==
    /\ prog = "filter" /\ pc = "v_54"
    /\ input = <<1, 2, 0, -2>> /\ target = 1 /\ v = <<2, 0, -2>>

(***************************************************************************)
(* C4: when the target does not occur in the sequence, remove-by-value     *)
(* returns the sequence unchanged (same length, elements and order).       *)
(***************************************************************************)
C4_AbsentValue ==
    (InFilter /\ ~Occurs(input, target)) =>
        /\ pc \in {"v_49", "v_50"} => (v = input /\ new_end = End(input))
        /\ AfterErase => (v = input /\ Len(v) = Len(input))

C4_Witness ==
    /\ prog = "filter" /\ pc = "v_51"
    /\ input = <<1, 0, 1>> /\ target = 2 /\ v = <<1, 0, 1>>

(***************************************************************************)
(* C5: applied to the empty sequence, remove-by-value and                  *)
(* remove-by-predicate yield the empty sequence and do not fail (no        *)
(* invalid iterator range is erased), for every target.                    *)
(***************************************************************************)
C5_EmptySequence ==
    [][/\ (InFilter /\ pc = "v_48" /\ v = <<>>) =>
             (v' = <<>> /\ ValidRange(v', new_end', End(v')))
       /\ (InFilter /\ pc = "v_50" /\ input = <<>>) =>
             (v' = <<>> /\ pc' = "v_51" /\ ~fault')
       /\ (InFilter /\ pc = "v_53" /\ v = <<>>) =>
             (v' = <<>> /\ pc' = "v_54" /\ ~fault')]_vars

C5_Witness ==
    /\ prog = "filter" /\ pc = "done" /\ input = <<>> /\ v = <<>>
    /\ ~fault /\ Len(cout.lines) = 4

C7_CallSiteCapture ==
    /\ Len(locs) = Len(calls)
    /\ \A i \in 1..Len(calls) :
          /\ locs[i].file = calls[i].site.file
          /\ locs[i].line = calls[i].site.line
    /\ (prog = "app" /\ calls # <<>>) =>
          /\ locs = <<[file |-> AppFile(path), line |-> 19]>>
          /\ locs[1].line \notin {7, 8}
          /\ cout.lines[3]
               = "info:" \o path \o "src/app.cpp:19 Logging Hello world!"
    /\ (prog = "log") =>
          \A i, j \in 1..Len(calls) :
             (calls[i].site.line # calls[j].site.line) =>
                 /\ locs[i].line # locs[j].line
                 /\ cout.lines[i] # cout.lines[j]

C7_Witness ==
    /\ prog = "log" /\ Len(calls) = 2
    /\ calls[1].site.line = 9 /\ calls[2].site.line = 100
    /\ calls[1].message = calls[2].message
    /\ calls[1].site.file = calls[2].site.file
    /\ locs[1].line = 9 /\ locs[2].line = 100

(***************************************************************************)
(* C8: operator<< of a person with name n and age a writes exactly         *)
(* (person [n,a]), with no whitespace or newline around it, and changes    *)
(* neither field; for "bingo" and 23 the text is (person [bingo,23]).      *)
(***************************************************************************)
C8_PersonFormat ==
    [][/\ (prog = "operator<<" /\ pc = "fmt_20") =>
             /\ cout = EmptyStream
             /\ cout'.lines = <<>>
             /\ cout'.cur = "(person [" \o p[1].name \o ","
                               \o IntToStr(p[1].age) \o "])"
             /\ p' = p
             /\ (p[1] = [name |-> "bingo", age |-> 23])
                   => cout'.cur = "(person [bingo,23])"
             /\ (p[1] = [name |-> "a b", age |-> -7])
                   => cout'.cur = "(person [a b,-7])"
       /\ (prog = "designated_initializers" /\ pc = "di_26") =>
             /\ cout'.lines = Append(cout.lines, "(person [bingo,23])")
             /\ cout'.cur = ""
             /\ p' = p]_vars

C8_Witness ==
    /\ prog = "operator<<" /\ pc = "done"
    /\ p = <<[name |-> "bingo", age |-> 23]>>
    /\ cout = [lines |-> <<>>, cur |-> "(person [bingo,23])"]

(***************************************************************************)
(* C9: in a run of main of app.cpp the output is, in this order and once   *)
(* each, the line "Hello, World!", the line "P.name = bingo" (written      *)
(* after the record {bingo, 23} was constructed), and one info: line for   *)
(* "Logging Hello world!"; nothing else is written.                        *)
(***************************************************************************)
AppOutput ==
    <<"Hello, World!", "P.name = bingo",
      "info:" \o path \o "src/app.cpp:19 Logging Hello world!">>

AppLinesAt(label) ==
    CASE label \in {"app_16"} -> 0
      [] label \in {"app_17", "app_18"} -> 1
      [] label \in {"app_19"} -> 2
      [] label \in {"app_20", "done"} -> 3

C9_AppOutputOrder ==
    (prog = "app") =>
        /\ cout.cur = ""
        /\ cout.lines = SubSeq(AppOutput, 1, AppLinesAt(pc))
        /\ p = IF pc \in {"app_16", "app_17"} THEN <<>>
               ELSE <<[name |-> "bingo", age |-> 23]>>
        /\ Len(calls) = IF pc \in {"app_20", "done"} THEN 1 ELSE 0

C9_Witness ==
    /\ prog = "app" /\ pc = "done" /\ path = ""
    /\ cout.lines = <<"Hello, World!", "P.name = bingo",
                      "info:src/app.cpp:19 Logging Hello world!">>

(***************************************************************************)
(* C10: in a run of main of learn.cpp the steps are: build                 *)
(* [1,2,3,2,5,2,6,2,4,8] and print it; remove 2 and print; erase the tail  *)
(* and print; remove the odd values and print.  The second pass works on   *)
(* the result of the first, and the sequence printed after each completed  *)
(* pass is the filtered one: [1,3,5,6,4,8], then [6,4,8].                  *)
(***************************************************************************)
LearnLinesAt(label) ==
    CASE label \in {"learn_61", "v_46", "v_47"} -> 0
      [] label \in {"v_48", "v_49"} -> 1
      [] label \in {"v_50", "v_51"} -> 2
      [] label \in {"v_53", "v_54"} -> 3
      [] label \in {"v_56", "learn_62", "done"} -> 4

C10_DemoOrder ==
    (prog = "learn") =>
        LET n == Len(cout.lines) IN
        /\ ~fault /\ pc # "ub"
        /\ cout.cur = ""
        /\ n = LearnLinesAt(pc)
        /\ n >= 1 => cout.lines[1] = "Original      : "
                        \o VecToStr(<<1, 2, 3, 2, 5, 2, 6, 2, 4, 8>>)
        /\ pc \in {"v_47", "v_48"} => v = <<1, 2, 3, 2, 5, 2, 6, 2, 4, 8>>
        /\ pc = "v_50" => cout.lines[2] = "After Remove  : " \o VecToStr(v)
        /\ pc \in {"v_51", "v_53"} => v = <<1, 3, 5, 6, 4, 8>>
        /\ n >= 3 => cout.lines[3] = "After Erase   : "
                        \o VecToStr(<<1, 3, 5, 6, 4, 8>>)
        /\ pc \in {"v_54", "v_56", "learn_62", "done"} => v = <<6, 4, 8>>
        /\ n >= 4 => cout.lines[4] = "After Odd Del : "
                        \o VecToStr(<<6, 4, 8>>)

C10_Witness ==
    /\ prog = "learn" /\ pc = "done" /\ v = <<6, 4, 8>>
    /\ Len(cout.lines) = 4
    /\ cout.lines[3] = "After Erase   : " \o VecToStr(<<1, 3, 5, 6, 4, 8>>)
    /\ cout.lines[4] = "After Odd Del : " \o VecToStr(<<6, 4, 8>>)

(***************************************************************************)
(* C11: every run of main of app.cpp and of main of learn.cpp reaches its  *)
(* return statement and ends with exit code 0; no other exit code is ever  *)
(* set.                                                                    *)
(***************************************************************************)
IsMain == prog \in {"app", "learn"}

C11_MainsTerminate ==
    /\ [](IsMain => (exit_code \in {<<>>, <<0>>}
                       /\ (exit_code = <<0>> <=> pc = "done")))
    /\ (IsMain ~> (pc = "done" /\ exit_code = <<0>>))

C11_Witness ==
    /\ prog = "learn" /\ pc = "done" /\ exit_code = <<0>>
    /\ Len(cout.lines) = 4

(***************************************************************************)
(* C12: set_remove_dups_demo deduplicates its in-memory string: when it    *)
(* returns, s1 holds exactly the distinct words of                         *)
(* "a a a b c foo bar foobar foo bar bar", whatever standard input holds,  *)
(* and standard input has not been read.                                   *)
(***************************************************************************)
C12_DedupInMemory ==
    (prog = "set_remove_dups_demo" /\ pc = "done") =>
        /\ s1 = {"a", "b", "bar", "c", "foo", "foobar"}
        /\ cin_pos = 1

(***************************************************************************)
(* C13: under the layout rule of the notes, foo4 {int a; char b; float c;  *)
(* double d; bool e} takes 32 bytes with paddings of 3, 4 and 7 bytes, the *)
(* reordered foo5 {double d; int a; float c; char b; bool e} takes 24      *)
(* bytes, and the reordering saves 8 bytes.                                *)
(***************************************************************************)
NonZero(s) == SelectSeq(s, LAMBDA n : n # 0)

C14_LambdaCapture ==
    /\ [](prog = "my_class::f" =>
            /\ Len(use_calls) >= 1 => use_calls[1] = <<0, 42>>
            /\ Len(use_calls) >= 2 => use_calls[2] = <<0, 43>>
            /\ \A k \in 1..Len(use_calls) : use_calls[k][1] = 0)
    /\ [][(use_calls' # use_calls) =>
             use_calls' = Append(use_calls, <<0, member_x>>)]_vars

C14_Witness ==
    /\ prog = "my_class::f" /\ pc = "done"
    /\ local_i = <<5>> /\ member_x = 43
    /\ use_calls = <<<<0, 42>>, <<0, 43>>, <<0, 7>>>>

(***************************************************************************)
(* C15: in const std::string& s = my_container().get_s(); std::cout << s   *)
(* the temporary is constructed (Constructed), get_s is called, the        *)
(* temporary is destroyed (s = "UNSAFE", Destructed), and only then s is   *)
(* printed through the reference, whose referent is then destroyed; the    *)
(* output is Constructed, Destructed, UNSAFE.                              *)
(***************************************************************************)
C15_ChainedGetter ==
    (prog = "my_container") =>
        /\ pc = "t_791_get" => cout.lines = <<"Constructed">>
        /\ pc = "t_792" =>
              /\ cout.lines = <<"Constructed", "Destructed">>
              /\ ref = "tmp.s" /\ ~tmp[1].alive /\ tmp[1].s = "UNSAFE"
        /\ pc # "ub"
        /\ pc \in {"t_793", "done"} =>
              cout.lines = <<"Constructed", "Destructed", "UNSAFE">>

(***************************************************************************)
(* C16: after std::remove and before erase the vector still has its        *)
(* original length, its prefix up to new_end is the filtered sequence, and *)
(* new_end - begin is the number of elements different from the target;    *)
(* the length changes only with erase.  In the demo the 'After Remove'     *)
(* line shows 10 elements, the first 6 being 1,3,5,6,4,8.                  *)
(***************************************************************************)
CountIn(s, Keep(_)) == Cardinality({k \in 1..Len(s) : Keep(s[k])})

C16_AfterRemove ==
    /\ (InFilter /\ pc \in {"v_47", "v_48", "v_49", "v_50"}) =>
          Len(v) = Len(input)
    /\ (InFilter /\ pc \in {"v_49", "v_50"}) =>
          /\ SubSeq(v, 1, new_end - 1) = KeepNot(input, target)
          /\ new_end - 1 = CountIn(input, LAMBDA e : e # target)
          /\ ValidRange(v, new_end, End(v))
    /\ (InFilter /\ pc \in {"v_51", "v_53"}) =>
          Len(v) = Len(input) - CountIn(input, LAMBDA e : e = target)
    /\ (prog = "learn" /\ pc = "v_50") =>
          /\ Len(v) = 10 /\ new_end = 7
          /\ SubSeq(v, 1, 6) = <<1, 3, 5, 6, 4, 8>>
          /\ cout.lines[2] = "After Remove  : " \o VecToStr(v)

C16_Witness ==
    /\ prog = "learn" /\ pc = "v_50"
    /\ Len(v) = 10 /\ new_end = 7 /\ Len(cout.lines) = 2

(***************************************************************************)
(* C17: the two passes commute and compose: removing the target and then   *)
(* the odd values gives the same sequence as removing the odd values and   *)
(* then the target, and both are the elements that are even and different  *)
(* from the target, in order.                                              *)
(***************************************************************************)
C17_PassesCommute ==
    (InFilter /\ pc = "v_54") =>
        LET odd == [kind |-> "is_odd"]
            eq == [kind |-> "eq", value |-> target]
        IN  /\ v = EraseRemoveIf(EraseRemoveIf(input, odd), eq)
            /\ v = EraseRemoveIf(EraseRemoveIf(input, eq), odd)
            /\ v = SelectSeq(input, LAMBDA e : e % 2 = 0 /\ e # target)

C17_Witness ==
    /\ prog = "filter" /\ pc = "v_54"
    /\ input = <<1, 2, 0, -1>> /\ target = 0 /\ v = <<2>>

(***************************************************************************)
(* C18: is_odd (i % 2 != 0 with the truncating remainder of C++) is true   *)
(* exactly for the integers not divisible by 2, negative ones included     *)
(* (-1, -3), and false for 0 and the negative even values; it agrees with  *)
(* the test by the non-negative modulo, so the second pass removes the     *)
(* negative odd values too.                                                *)
(***************************************************************************)
C18_IsOddSigned ==
    /\ InFilter =>
          \A k \in 1..Len(input) : is_odd(input[k]) <=> (input[k] % 2 = 1)
    /\ (InFilter /\ pc = "v_54") =>
          /\ is_odd(-1) /\ is_odd(-3) /\ is_odd(1) /\ is_odd(3)
          /\ ~is_odd(0) /\ ~is_odd(-2) /\ ~is_odd(-4) /\ ~is_odd(2)
          /\ \A n \in (-17)..17 : is_odd(n) <=> (n % 2 = 1)
          /\ \A k \in 1..Len(v) : v[k] % 2 = 0
          /\ \A k \in 1..Len(input) :
                (input[k] < 0 /\ input[k] % 2 = 1) => ~Occurs(v, input[k])

C18_Witness ==
    /\ prog = "filter" /\ pc = "v_54"
    /\ input = <<-1, 2, -2>> /\ target = 0 /\ v = <<2, -2>>

(***************************************************************************)
(* C19: main of learn.cpp runs vector_remove_erase_idiom only:             *)
(* designated_initializers, source_location and set_remove_dups_demo are   *)
(* never executed, so standard input is never read, no info: line and no   *)
(* person line is written, and the whole output is the four lines          *)
(* Original, After Remove, After Erase, After Odd Del, in that order.      *)
(***************************************************************************)
LearnLabels ==
    {"learn_61", "v_46", "v_47", "v_48", "v_49", "v_50", "v_51", "v_53",
     "v_54", "v_56", "learn_62", "done"}

DemoValues == {DemoVector[k] : k \in 1..Len(DemoVector)}

C19_LearnMainOnly ==
    (prog = "learn") =>
        /\ pc \in LearnLabels
        /\ calls = <<>> /\ locs = <<>> /\ p = <<>>
        /\ cin_pos = 1 /\ it1 = <<>> /\ instream = <<>> /\ s1 = {}
        /\ (pc = "done") =>
              /\ Len(cout.lines) = 4 /\ cout.cur = ""
              /\ cout.lines[1] = "Original      : [1, 2, 3, 2, 5, 2, 6, 2, 4, 8]"
              /\ \E tail \in [1..4 -> DemoValues] :
                    cout.lines[2] = "After Remove  : "
                        \o VecToStr(<<1, 3, 5, 6, 4, 8>> \o tail)
              /\ cout.lines[3] = "After Erase   : [1, 3, 5, 6, 4, 8]"
              /\ cout.lines[4] = "After Odd Del : [6, 4, 8]"

C19_Witness ==
    /\ prog = "learn" /\ pc = "done"
    /\ stdin = <<"zed", "a">> /\ cin_pos = 1
    /\ Len(cout.lines) = 4 /\ calls = <<>>

(***************************************************************************)
(* C20: both filters are idempotent and never grow the sequence: applying  *)
(* a filter again to its own result changes nothing, the length of a       *)
(* result is the length of the input minus the number of removed elements, *)
(* and at every step every element of the vector is a value of the         *)
(* original sequence.                                                      *)
(***************************************************************************)
C20_IdempotentNoGrowth ==
    /\ [](InFilter =>
            /\ \A k \in 1..Len(v) : Occurs(input, v[k])
            /\ Len(v) <= Len(input)
            /\ AfterErase =>
                  /\ EraseRemoveIf(v, [kind |-> "eq", value |-> target]) = v
                  /\ Len(v) = Len(input)
                               - CountIn(input, LAMBDA e : e = target)
            /\ (pc = "v_54") => EraseRemoveIf(v, [kind |-> "is_odd"]) = v)
    /\ [][(InFilter /\ pc = "v_53") =>
             Len(v') = Len(v) - CountIn(v, LAMBDA e : e % 2 = 1)]_vars

C20_Witness ==
    /\ prog = "filter" /\ pc = "v_54"
    /\ input = <<2, 1, 0, 2>> /\ target = 2 /\ v = <<0>>

=============================================================================
